---- MODULE Spec2Model ----
(***************************************************************************)
(* Model of src/vat_checker.py: the command-line entry point and           *)
(* check_vat_reliability with its helpers _build_soap_envelope,            *)
(* _call_service and _interpret_status.                                    *)
(*                                                                         *)
(* A Python str is a sequence of one-character strings.  The character     *)
(* written "U+0663" is ARABIC-INDIC DIGIT THREE: a character of Unicode    *)
(* category Nd that is not one of 0-9.                                     *)
(***************************************************************************)
EXTENDS Naturals, Sequences, FiniteSets

\* ---------------------------------------------------------------- bounds
MaxInputLen == 2
MaxElems == 1
MaxAttrLen == 4

\* ------------------------------------------------------------ characters
AsciiDigits == {"0", "1", "2", "3", "4", "5", "6", "7", "8", "9"}

\* What the pattern \d matches on a str pattern without re.ASCII: every
\* character of Unicode category Nd.
UnicodeDecimalDigits == AsciiDigits \cup {"U+0663"}

\* Characters the command-line argument is drawn from.
InputChars == {"1", "C", "U+0663"}

\* Characters the nespolehlivyPlatce attribute of the response is drawn from.
AttrChars == {"A", "N", "O", "E", "n", " "}

Whitespace == {" "}

SeqsUpTo(S, n) == UNION {[1..k -> S] : k \in 0..n}

\* --------------------------------------------------------- pure functions
\* The pattern r"\D" of line 82: a character that \d does not match.
MatchesNonDigit(c) == c \notin UnicodeDecimalDigits

RECURSIVE StripNonDigits(_)
\* re.sub(r"\D", "", s): every match of \D replaced by the empty string.
StripNonDigits(s) ==
    IF s = <<>> THEN <<>>
    ELSE IF MatchesNonDigit(Head(s)) THEN StripNonDigits(Tail(s))
         ELSE <<Head(s)>> \o StripNonDigits(Tail(s))

RECURSIVE LStrip(_)
LStrip(s) ==
    IF s # <<>> /\ Head(s) \in Whitespace THEN LStrip(Tail(s)) ELSE s

RECURSIVE RStrip(_)
RStrip(s) ==
    IF s # <<>> /\ s[Len(s)] \in Whitespace
    THEN RStrip(SubSeq(s, 1, Len(s) - 1)) ELSE s

\* str.strip()
Strip(s) == RStrip(LStrip(s))

UpperChar(c) == IF c = "n" THEN "N" ELSE c

\* str.upper()
Upper(s) == [i \in 1..Len(s) |-> UpperChar(s[i])]

\* Variant: the value is trimmed but its case is kept.
NormalizeNoUpper(raw) == Strip(raw)

\* .strip().upper() of line 109
NormalizeAttr(raw) == Upper(Strip(raw))

ANO == <<"A", "N", "O">>
NE == <<"N", "E">>

\* Variant: every code other than ANO is read as reliable.
InterpretStatusNoFallback(status) ==
    IF status = ANO THEN <<"Unreliable", "false">>
    ELSE <<"Reliable", "true">>

\* _interpret_status: <<status_text, reliable_value>>
InterpretStatus(status) ==
    IF status = ANO THEN <<"Unreliable", "false">>
    ELSE IF status = NE THEN <<"Reliable", "true">>
    ELSE <<"Not found", "NA">>


\* ------------------------------------------------------------- constants
\* The prefix crp of NS (line 14) resolved, in ElementTree's {uri}local form.
CrpStatusTag == "{http://adis.mfcr.cz/rozhraniCRPDPH/}statusPlatceDPH"

\* A statusPlatceDPH element that is in no namespace.
PlainStatusTag == "statusPlatceDPH"

\* A dic value no input of InputChars normalises to.
OtherDic == <<"9">>

\* None, as returned by _call_service and by Element.find.
NoRoot == [kind |-> "None", descendants |-> <<>>]

\* The attribute nespolehlivyPlatce is missing from the element.
Absent == [present |-> FALSE, value |-> <<>>]

DefaultResult ==
    [status |-> "error",
     reliable_vat_payer |-> "true",
     message |-> <<"">>,
     auto_checked |-> TRUE,
     vat_number_clean |-> <<>>]

\* ----------------------------------------------------------------- state
VARIABLES
    pc,          \* position in __main__ / check_vat_reliability
    vat_input,   \* args.vat, the argument of check_vat_reliability
    vat_number,  \* local vat_number of check_vat_reliability
    result,      \* local dict result
    payload,     \* the envelope built by _build_soap_envelope
    resp,        \* what requests.post met: an exception or a response body
    root,        \* what _call_service returned
    element,     \* index in root.descendants of the element found, 0 = None
    nsp_raw,     \* element.attrib as far as line 109 reads it
    posts,       \* number of HTTP POSTs issued
    stages,      \* the stages executed so far, in order
    stderr,      \* diagnostic lines printed to sys.stderr
    stdout,      \* records printed to sys.stdout
    exc          \* the exception that left check_vat_reliability, or "none"

vars == <<pc, vat_input, vat_number, result, payload, resp, root, element,
          nsp_raw, posts, stages, stderr, stdout, exc>>

NoResponse == [outcome |-> "none", form |-> "none", descendants |-> <<>>]

Init ==
    /\ pc = "main"
    /\ vat_input \in SeqsUpTo(InputChars, MaxInputLen)
    /\ vat_number = <<>>
    /\ result = DefaultResult
    /\ payload = [dic |-> <<>>]
    /\ resp = NoResponse
    /\ root = NoRoot
    /\ element = 0
    /\ nsp_raw = Absent
    /\ posts = 0
    /\ stages = <<>>
    /\ stderr = <<>>
    /\ stdout = <<>>
    /\ exc = "none"

\* ------------------------------------------------------------ operations
\* Lines 124-134: parse_args binds args.vat and check_vat_reliability is
\* entered with it.
ParseArgs ==
    /\ pc = "main"
    /\ pc' = "normalize"
    /\ UNCHANGED <<vat_input, vat_number, result, payload, resp, root,
                   element, nsp_raw, posts, stages, stderr, stdout, exc>>

\* Lines 73-88: the default record, the normalisation and the early return
\* on an empty digit string.
Normalize ==
    /\ pc = "normalize"
    /\ vat_number' = StripNonDigits(vat_input)
    /\ stages' = Append(stages, "normalize")
    /\ IF StripNonDigits(vat_input) = <<>>
       THEN /\ result' = [DefaultResult EXCEPT
                            !.vat_number_clean = StripNonDigits(vat_input),
                            !.message = <<"Invalid VAT number - no digits found">>,
                            !.auto_checked = FALSE]
            /\ pc' = "return"
       ELSE /\ result' = [DefaultResult EXCEPT
                            !.vat_number_clean = StripNonDigits(vat_input)]
            /\ pc' = "build"
    /\ UNCHANGED <<vat_input, payload, resp, root, element, nsp_raw, posts,
                   stderr, stdout, exc>>

\* Lines 32-37 and 17-27: _call_service builds the envelope, whose only
\* variable part is the text of <dic>.
BuildSoapEnvelope ==
    /\ pc = "build"
    /\ payload' = [dic |-> vat_number]
    /\ stages' = Append(stages, "build")
    /\ pc' = "post"
    /\ UNCHANGED <<vat_input, vat_number, result, resp, root, element,
                   nsp_raw, posts, stderr, stdout, exc>>

\* The elements a response to a query for dic v may carry.
ElementsFor(v) ==
    {[tag |-> t, dic |-> d] : t \in {CrpStatusTag, PlainStatusTag},
                              d \in {v, OtherDic}}

\* The bodies a 2xx response to a query for dic v may have: well-formed
\* XML, XML that is not well-formed, and XML whose declaration names an
\* encoding the parser does not know or does not support.
BodiesFor(v) ==
    {[outcome |-> "ok", form |-> "wellformed", descendants |-> d] :
        d \in SeqsUpTo(ElementsFor(v), MaxElems)}
    \cup {[outcome |-> "ok", form |-> f, descendants |-> <<>>] :
        f \in {"malformed", "unknown_encoding", "multibyte_encoding"}}

\* What requests.post and raise_for_status raise.
PostExceptions == {"ConnectionError", "Timeout", "HTTPError"}

\* Variant: a failed POST is attempted again.
PostFailsAndRetries ==
    /\ pc = "post"
    /\ posts < 3
    /\ \E e \in PostExceptions :
          resp' = [outcome |-> e, form |-> "none", descendants |-> <<>>]
    /\ posts' = posts + 1
    /\ stages' = Append(stages, "call")
    /\ stderr' = Append(stderr, "Error contacting service")
    /\ root' = NoRoot
    /\ pc' = "post"
    /\ UNCHANGED <<vat_input, vat_number, result, payload, element, nsp_raw,
                   stdout, exc>>

\* Lines 39-47: the POST raises; the exception is printed and None returned.
PostFails ==
    /\ pc = "post"
    /\ \E e \in PostExceptions :
          resp' = [outcome |-> e, form |-> "none", descendants |-> <<>>]
    /\ posts' = posts + 1
    /\ stages' = Append(stages, "call")
    /\ stderr' = Append(stderr, "Error contacting service")
    /\ root' = NoRoot
    /\ pc' = "called"
    /\ UNCHANGED <<vat_input, vat_number, result, payload, element, nsp_raw,
                   stdout, exc>>

\* Lines 39-44: the POST returns a 2xx response.
PostSucceeds ==
    /\ pc = "post"
    /\ resp' \in BodiesFor(payload.dic)
    /\ posts' = posts + 1
    /\ stages' = Append(stages, "call")
    /\ pc' = "parse"
    /\ UNCHANGED <<vat_input, vat_number, result, payload, root, element,
                   nsp_raw, stderr, stdout, exc>>

\* ET.fromstring on the body: the root, or the exception it raises.
\* A declaration naming an unknown encoding raises LookupError, one naming
\* a multi-byte encoding raises ValueError; neither is a ParseError.
FromString(body) ==
    CASE body.form = "wellformed" -> "root"
      [] body.form = "malformed" -> "ParseError"
      [] body.form = "unknown_encoding" -> "LookupError"
      [] body.form = "multibyte_encoding" -> "ValueError"

\* Lines 50-55: the body is parsed; ParseError is printed and None
\* returned; any other exception leaves _call_service, and then
\* check_vat_reliability and __main__, which catch nothing.
ParseResponse ==
    /\ pc = "parse"
    /\ CASE FromString(resp) = "root" ->
              /\ root' = [kind |-> "Element", descendants |-> resp.descendants]
              /\ pc' = "called"
              /\ UNCHANGED <<stderr, exc>>
         [] FromString(resp) = "ParseError" ->
              /\ root' = NoRoot
              /\ stderr' = Append(stderr, "Error parsing XML response")
              /\ pc' = "called"
              /\ UNCHANGED exc
         [] OTHER ->
              /\ exc' = FromString(resp)
              /\ stderr' = Append(stderr, "Traceback")
              /\ pc' = "crashed"
              /\ UNCHANGED root
    /\ UNCHANGED <<vat_input, vat_number, result, payload, resp, element,
                   nsp_raw, posts, stages, stdout>>


\* Lines 91-95: _call_service has returned; None ends the check with the
\* default record marked as not checked automatically.
ServiceReturned ==
    /\ pc = "called"
    /\ IF root = NoRoot
       THEN /\ result' = [result EXCEPT
                !.message = <<"Error: could not get response from VAT service">>,
                !.auto_checked = FALSE]
            /\ pc' = "return"
       ELSE /\ pc' = "find"
            /\ UNCHANGED result
    /\ UNCHANGED <<vat_input, vat_number, payload, resp, root, element,
                   nsp_raw, posts, stages, stderr, stdout, exc>>

\* Variant: the predicate on dic is dropped from the path.
FindAnyStatus(r, v) ==
    IF \E i \in 1..Len(r.descendants) : r.descendants[i].tag = CrpStatusTag
    THEN CHOOSE i \in 1..Len(r.descendants) :
            /\ r.descendants[i].tag = CrpStatusTag
            /\ \A j \in 1..(i - 1) : r.descendants[j].tag # CrpStatusTag
    ELSE 0

\* root.find(".//crp:statusPlatceDPH[@dic='v']", NS): the first descendant,
\* in document order, with that qualified tag and that dic; 0 for None.
Find(r, v) ==
    IF \E i \in 1..Len(r.descendants) :
          r.descendants[i].tag = CrpStatusTag /\ r.descendants[i].dic = v
    THEN CHOOSE i \in 1..Len(r.descendants) :
            /\ r.descendants[i].tag = CrpStatusTag /\ r.descendants[i].dic = v
            /\ \A j \in 1..(i - 1) :
                  ~(r.descendants[j].tag = CrpStatusTag
                    /\ r.descendants[j].dic = v)
    ELSE 0

\* Variant: the not_found record keeps the default reliable_vat_payer.
FindElementNotFoundKeepsDefault ==
    /\ pc = "find"
    /\ element' = Find(root, vat_number)
    /\ stages' = Append(stages, "interpret")
    /\ IF Find(root, vat_number) = 0
       THEN /\ result' = [result EXCEPT
                !.status = "not_found",
                !.message = <<"VAT payer not found in registry">>]
            /\ pc' = "return"
       ELSE /\ pc' = "read"
            /\ UNCHANGED result
    /\ UNCHANGED <<vat_input, vat_number, payload, resp, root, nsp_raw,
                   posts, stderr, stdout, exc>>

\* Variant: the not_found record is marked as not checked automatically.
FindElementClearsAutoChecked ==
    /\ pc = "find"
    /\ element' = Find(root, vat_number)
    /\ stages' = Append(stages, "interpret")
    /\ IF Find(root, vat_number) = 0
       THEN /\ result' = [result EXCEPT
                !.status = "not_found",
                !.reliable_vat_payer = "NA",
                !.message = <<"VAT payer not found in registry">>,
                !.auto_checked = FALSE]
            /\ pc' = "return"
       ELSE /\ pc' = "read"
            /\ UNCHANGED result
    /\ UNCHANGED <<vat_input, vat_number, payload, resp, root, nsp_raw,
                   posts, stderr, stdout, exc>>

\* Lines 97-106: the element is looked up; None ends the check as not_found.
FindElement ==
    /\ pc = "find"
    /\ element' = Find(root, vat_number)
    /\ stages' = Append(stages, "interpret")
    /\ IF Find(root, vat_number) = 0
       THEN /\ result' = [result EXCEPT
                !.status = "not_found",
                !.reliable_vat_payer = "NA",
                !.message = <<"VAT payer not found in registry">>]
            /\ pc' = "return"
       ELSE /\ pc' = "read"
            /\ UNCHANGED result
    /\ UNCHANGED <<vat_input, vat_number, payload, resp, root, nsp_raw,
                   posts, stderr, stdout, exc>>

\* The values element.attrib may hold for nespolehlivyPlatce.
AttrValues ==
    {Absent} \cup {[present |-> TRUE, value |-> a] :
                      a \in SeqsUpTo(AttrChars, MaxAttrLen)}

\* element.attrib.get("nespolehlivyPlatce", "")
AttribGet(a) == IF a.present THEN a.value ELSE <<>>

\* Lines 108-116: the attribute of the element found is read, normalised
\* and mapped.  No other attribute value of the response is ever read, so
\* the value is drawn here, where the code reads it.
ReadStatus ==
    /\ pc = "read"
    /\ \E a \in AttrValues :
         /\ nsp_raw' = a
         /\ result' = [result EXCEPT
              !.status = "success",
              !.reliable_vat_payer = InterpretStatus(NormalizeAttr(AttribGet(a)))[2],
              !.message = <<"VAT Tax payer status: ",
                            InterpretStatus(NormalizeAttr(AttribGet(a)))[1]>>]
    /\ pc' = "return"
    /\ UNCHANGED <<vat_input, vat_number, payload, resp, root, element,
                   posts, stages, stderr, stdout, exc>>

\* Line 135: print(json.dumps(result)); the interpreter then exits with 0.
PrintResult ==
    /\ pc = "return"
    /\ stdout' = Append(stdout, result)
    /\ pc' = "exit"
    /\ UNCHANGED <<vat_input, vat_number, result, payload, resp, root,
                   element, nsp_raw, posts, stages, stderr, exc>>

Next ==
    \/ ParseArgs
    \/ Normalize
    \/ BuildSoapEnvelope
    \/ PostFails
    \/ PostSucceeds
    \/ ParseResponse
    \/ ServiceReturned
    \/ FindElement
    \/ ReadStatus
    \/ PrintResult

Spec == Init /\ [][Next]_vars


\* ------------------------------------------------------------ properties
\* check_vat_reliability has returned a record (printed or about to be).
Returned == pc \in {"return", "exit"}

\* The remote call failed: the POST raised, or the body of the 2xx
\* response is not XML the parser can parse.
RemoteCallFailed ==
    \/ resp.outcome \in PostExceptions
    \/ resp.outcome = "ok" /\ resp.form # "wellformed"

RECURSIVE KeepAsciiDigits(_)
\* s with every character that is not one of 0-9 removed.
KeepAsciiDigits(s) ==
    IF s = <<>> THEN <<>>
    ELSE IF Head(s) \in AsciiDigits
         THEN <<Head(s)>> \o KeepAsciiDigits(Tail(s))
         ELSE KeepAsciiDigits(Tail(s))

\* The response holds a statusPlatceDPH element, in whatever namespace,
\* whose dic is the string sent.
HasStatusElementFor(r, v) ==
    \E i \in 1..Len(r.descendants) :
        /\ r.descendants[i].tag \in {CrpStatusTag, PlainStatusTag}
        /\ r.descendants[i].dic = v

\* The attribute read from the element found, trimmed and upper-cased.
TrimmedUpper == Upper(Strip(AttribGet(nsp_raw)))

StageOrder == <<"normalize", "build", "call", "interpret">>

IsPrefix(s, t) == Len(s) <= Len(t) /\ SubSeq(t, 1, Len(s)) = s

\* C1: whenever the remote call has failed (the POST raised, or the body
\* cannot be parsed), no exception leaves check_vat_reliability and the
\* record it returns has status error, auto_checked false and
\* reliable_vat_payer "true".
C1_ServiceFailureIsAnErrorRecord ==
    RemoteCallFailed =>
        /\ exc = "none"
        /\ pc # "crashed"
        /\ Returned =>
             /\ result.status = "error"
             /\ result.auto_checked = FALSE
             /\ result.reliable_vat_payer = "true"

\* C2: the vat_number_clean of the returned record is the input with
\* every character other than 0-9 removed, the rest in their order.
C2_CleanIsTheAsciiDigitsOfTheInput ==
    Returned => result.vat_number_clean = KeepAsciiDigits(vat_input)

\* C3: for an input with no digit 0-9 in it, the returned record has
\* auto_checked false and status error.
C3_NoDigitsIsAnErrorRecord ==
    (Returned /\ KeepAsciiDigits(vat_input) = <<>>) =>
        /\ result.status = "error"
        /\ result.auto_checked = FALSE

\* C4: when the service call succeeded and the parsed response holds no
\* statusPlatceDPH element whose dic is the string sent, the returned
\* record has status not_found and reliable_vat_payer "NA".
C4_NoMatchingElementIsNotFound ==
    (Returned /\ root # NoRoot /\ ~HasStatusElementFor(root, payload.dic)) =>
        /\ result.status = "not_found"
        /\ result.reliable_vat_payer = "NA"

C4_Witness ==
    /\ Returned
    /\ root # NoRoot
    /\ Len(root.descendants) > 0
    /\ ~HasStatusElementFor(root, payload.dic)
    /\ result.status = "not_found"

\* C5: when the element found has a nespolehlivyPlatce that is ANO after
\* trimming and upper-casing, the returned record is success with
\* reliable_vat_payer "false"; when it is NE, success with "true".
C5_KnownCodesAreMapped ==
    (Returned /\ element # 0) =>
        /\ TrimmedUpper = ANO =>
             /\ result.status = "success"
             /\ result.reliable_vat_payer = "false"
        /\ TrimmedUpper = NE =>
             /\ result.status = "success"
             /\ result.reliable_vat_payer = "true"

C5_Witness ==
    /\ Returned
    /\ element # 0
    /\ nsp_raw = [present |-> TRUE, value |-> <<" ", "A", "n", "O">>]
    /\ result.status = "success"
    /\ result.reliable_vat_payer = "false"

\* C6 as stated: in every returned record reliable_vat_payer is "NA"
\* whenever status is not_found, and is "true" or "false" only when
\* status is success.
C6_TrueFalseOnlyOnSuccess ==
    Returned =>
        /\ result.status = "not_found" => result.reliable_vat_payer = "NA"
        /\ result.reliable_vat_payer \in {"true", "false"} =>
             result.status = "success"

\* C6 as amended: in every returned record reliable_vat_payer is "NA"
\* whenever status is not_found, is "false" only when status is success,
\* and is "true" only when status is success or error.
C6_TrueAlsoOnError ==
    Returned =>
        /\ result.status = "not_found" => result.reliable_vat_payer = "NA"
        /\ result.reliable_vat_payer = "false" => result.status = "success"
        /\ result.reliable_vat_payer = "true" =>
             result.status \in {"success", "error"}

C6_Witness ==
    /\ Returned
    /\ result.status = "error"
    /\ result.reliable_vat_payer = "true"

\* C7: in every returned record auto_checked is false only when status is
\* error and either the normalised input is empty or the service call
\* failed in transport or in parsing; a record with status not_found or
\* success has auto_checked true.
C7_AutoCheckedFalseOnlyOnError ==
    Returned =>
        /\ result.auto_checked = FALSE =>
             /\ result.status = "error"
             /\ \/ result.vat_number_clean = <<>>
                \/ resp.outcome \in PostExceptions
                \/ resp.outcome = "ok" /\ FromString(resp) = "ParseError"
        /\ result.status \in {"not_found", "success"} =>
             result.auto_checked = TRUE

C7_Witness ==
    /\ Returned
    /\ result.auto_checked = FALSE
    /\ result.vat_number_clean # <<>>
    /\ resp.form = "malformed"

\* C8: when the element is found and its nespolehlivyPlatce, trimmed and
\* upper-cased, is neither ANO nor NE (a missing or empty attribute
\* included), the returned record has status success, reliable_vat_payer
\* "NA" and a message ending in the label "Not found".
C8_UnknownCodeIsSuccessWithNA ==
    (Returned /\ element # 0 /\ TrimmedUpper \notin {ANO, NE}) =>
        /\ result.status = "success"
        /\ result.reliable_vat_payer = "NA"
        /\ result.message[Len(result.message)] = "Not found"

C8_Witness ==
    /\ Returned
    /\ element # 0
    /\ nsp_raw = Absent
    /\ result.status = "success"
    /\ result.reliable_vat_payer = "NA"

\* C9: every run of the entry point ends without a crash and with exactly
\* one record on standard output.
C9_EveryRunPrintsOneRecord ==
    /\ pc # "crashed"
    /\ exc = "none"
    /\ Len(stdout) <= 1
    /\ pc = "exit" => Len(stdout) = 1

\* C10: the stages of one invocation run in the order normalize, build,
\* call, interpret, each at most once, and at most one POST is issued,
\* also when it fails.
C10_StagesForwardOnePost ==
    /\ IsPrefix(stages, StageOrder)
    /\ posts <= 1
    /\ resp.outcome \in PostExceptions => posts = 1 /\ pc \notin {"build", "post"}

C10_Witness ==
    /\ pc = "exit"
    /\ stages = StageOrder
    /\ posts = 1

====
